---- MODULE Spec2Model ----
(***************************************************************************)
(* A model of the datapyp execution engine (src/datapyp/core.py): the      *)
(* Pipeline's step list, Pipeline.run with its selection, filtering,       *)
(* resume and checkpoint logic, run_step with its error and exception      *)
(* policy, and the MultiprocessStep fan-out/join.                          *)
(*                                                                         *)
(* Conventions.  A Python value that may be None is a sequence of length   *)
(* 0 (None) or 1 (the value).  A set of tags stands for a list of tags:    *)
(* the code only ever tests membership.  A unit of a working list is a     *)
(* reference to a step object; step objects live in the Pipeline's own     *)
(* list `steps`, so a reference is a position of `steps` (1-based), while  *)
(* the cursor run_step_idx counts from 0 as in the code.                   *)
(***************************************************************************)
EXTENDS Integers, Sequences, FiniteSets, TLC

(***************************************************************************)
(* Bounds of the model.                                                    *)
(***************************************************************************)
MaxSteps == 3        \* units a Pipeline holds
MaxChildren == 2     \* children of one MultiprocessStep
MaxGroups == 1       \* MultiprocessSteps a Pipeline holds
MaxSpecial == 2      \* units of a Pipeline other than a plain step that succeeds
MaxSaveFailures == 1 \* times save_pipeline fails in one behaviour
MaxRuns == 2         \* calls of Pipeline.run in one behaviour
CpuCount == 2        \* multiprocessing.cpu_count(): the default pool_size
MaxChunked == 5      \* children of a MultiprocessStep whose pool has one worker

(***************************************************************************)
(* Python values.                                                          *)
(***************************************************************************)
None == <<>>
Some(x) == <<x>>
Truthy(o) == o # None /\ o[1]

\* The value of a step's `results` field: None, or what the work returned.
\* kind: "None" | "dict" (a dict with a 'status' key) | "nokey" (a dict
\* without one).  extra names the other key a dict holds, if any.
NoResults == [kind |-> "None", status |-> "", extra |-> ""]
StatusDict(s) == [kind |-> "dict", status |-> s, extra |-> ""]

\* str.lower() on the status strings of the model.
Lower(s) == IF s = "Error" THEN "error" ELSE s

\* What calling step.func(**func_kwargs) does: raise, or return a value.
\* "raise_once" is work that raises because of something outside the
\* pipeline, which its first failed attempt brings to light and gets fixed:
\* it raises while not fixed and succeeds afterwards.
\* "setvar" is work that takes global_vars, sets an attribute of it to its
\* own step_id, and succeeds.
Funcs == {"success", "error", "Error", "none", "nokey", "raise", "raise_once", "setvar"}
FuncCall(func, is_fixed) ==
    CASE func = "raise" -> [raises |-> TRUE, value |-> NoResults]
      [] func = "raise_once" ->
            [raises |-> ~is_fixed,
             value |-> IF is_fixed THEN StatusDict("success") ELSE NoResults]
      [] func = "none" -> [raises |-> FALSE, value |-> NoResults]
      [] func = "nokey" ->
            [raises |-> FALSE,
             value |-> [kind |-> "nokey", status |-> "", extra |-> "data"]]
      [] func = "setvar" -> [raises |-> FALSE, value |-> StatusDict("success")]
      [] OTHER -> [raises |-> FALSE, value |-> StatusDict(func)]

\* The PipelineGlobals object a call of step.func leaves behind, given the
\* one it was passed (get_func_kwargs, line 300-301).  The model keeps one
\* attribute of the object: None, or the step_id of the step that set it.
FuncGlobals(step, passed) == IF step.func = "setvar" THEN step.step_id ELSE passed

(***************************************************************************)
(* Step objects.  One record shape serves PipelineStep and                 *)
(* MultiprocessStep; the fields a type does not have stay at their         *)
(* defaults.                                                               *)
(***************************************************************************)
PipelineStep(func, step_id, tags, ignore_errors, ignore_exceptions) ==
    [_step_type |-> "PipelineStep", func |-> func, tags |-> tags,
     step_id |-> step_id, ignore_errors |-> ignore_errors,
     ignore_exceptions |-> ignore_exceptions, results |-> NoResults,
     steps |-> <<>>, next_id |-> 0, pool_size |-> 0]

\* MultiprocessStep.__init__ (line 524-543): the step objects of `steps`
\* are taken as they are, whatever their step_id.  The object
\* has no results attribute until line 421-431 assigns one; NoResults
\* stands for that too.
MultiprocessStep(step_id, tags, steps, pool_size) ==
    [_step_type |-> "MultiprocessStep", func |-> "", tags |-> tags,
     step_id |-> step_id, ignore_errors |-> FALSE,
     ignore_exceptions |-> FALSE, results |-> NoResults,
     steps |-> steps, next_id |-> 0,
     pool_size |-> IF pool_size = None THEN CpuCount ELSE pool_size[1]]

(***************************************************************************)
(* run_step: the policy a step's execution follows.                        *)
(***************************************************************************)
\* A test in which the step's own flag is enough to catch the fault.
CatchExceptionsStepWins(step, ignore_exceptions) ==
    step.ignore_exceptions \/ (ignore_exceptions # None /\ ignore_exceptions[1])

\* Line 69-70: whether a fault raised by the work is caught.
CatchExceptions(step, ignore_exceptions) ==
    (ignore_exceptions # None /\ ignore_exceptions[1])
        \/ (ignore_exceptions = None /\ step.ignore_exceptions)

\* Line 87: the result is not a dictionary with a 'status' key.
Malformed(result) == result.kind # "dict"

\* Line 98-99: whether an 'error' status raises PipelineError.  Python's
\* `not ignore_errors` is true of None and of False.
RaiseOnError(step, ignore_errors) ==
    (ignore_errors = None /\ ~step.ignore_errors) \/ ~Truthy(ignore_errors)

\* run_step((step, func_kwargs, run_step_idx, ignore_errors,
\* ignore_exceptions)).  exc is "" when the call returns the step, and the
\* exception's name when it raises; step is the step object afterwards
\* (its results assigned at line 85 unless the fault escaped before).
run_step(step, ignore_errors, ignore_exceptions, is_fixed) ==
    LET call == FuncCall(step.func, is_fixed)
        result == IF call.raises
                  THEN [kind |-> "dict", status |-> "error", extra |-> "error"]
                  ELSE call.value
        stored == [step EXCEPT !.results = result]
        final == IF Malformed(result)
                 THEN [kind |-> "dict", status |-> "unknown", extra |-> "result"]
                 ELSE result
    IN  IF call.raises /\ ~CatchExceptions(step, ignore_exceptions)
        THEN [exc |-> "Exception", step |-> step]
        ELSE IF Lower(final.status) = "error" /\ RaiseOnError(step, ignore_errors)
        THEN [exc |-> "PipelineError", step |-> stored]
        ELSE [exc |-> "", step |-> stored]

(***************************************************************************)
(* Pipeline.run: selection, filtering and slicing.                         *)
(***************************************************************************)
\* The filter with the precedence of its two tests exchanged: a run tag
\* keeps a step whatever else it carries.
KeepStepRunTagWins(step, run_tags, ignore_tags) ==
    (run_tags # {} /\ step.tags \cap run_tags # {})
        \/ step.tags \cap ignore_tags = {}

\* Line 372-373: the filter on one step.
KeepStep(step, run_tags, ignore_tags) ==
    (run_tags = {} \/ step.tags \cap run_tags # {})
        /\ step.tags \cap ignore_tags = {}

RECURSIVE FilterSteps(_, _, _, _)
FilterSteps(objs, refs, run_tags, ignore_tags) ==
    IF refs = <<>> THEN <<>>
    ELSE LET rest == FilterSteps(objs, Tail(refs), run_tags, ignore_tags)
         IN  IF KeepStep(objs[Head(refs)], run_tags, ignore_tags)
             THEN <<Head(refs)>> \o rest
             ELSE rest

\* A candidate list that is the pipeline's steps also on resume.
CandidatesAnew(objs, cur_run_steps, explicit, resume) ==
    IF explicit # None THEN explicit[1] ELSE [i \in 1..Len(objs) |-> i]

\* Line 365-368: the candidate list.
Candidates(objs, cur_run_steps, explicit, resume) ==
    IF explicit # None THEN explicit[1]
    ELSE IF cur_run_steps = None \/ ~resume THEN [i \in 1..Len(objs) |-> i]
    ELSE cur_run_steps[1]

\* A cursor that goes back to the first unit unless start_idx is given.
StartCursorRestart(cur_idx, start_idx, resume) ==
    IF start_idx # None THEN start_idx[1] ELSE 0

\* A cursor that a resumed run keeps even when start_idx is given.
StartCursorResumeFirst(cur_idx, start_idx, resume) ==
    IF resume THEN cur_idx
    ELSE IF start_idx # None THEN start_idx[1] ELSE 0

\* Line 391-394: the cursor the run starts from.
StartCursor(cur_idx, start_idx, resume) ==
    IF start_idx # None THEN start_idx[1]
    ELSE IF ~resume THEN 0
    ELSE cur_idx

\* The first position (counted from 0) of Python's s[i:].
SliceStart(n, i) ==
    IF i < 0 THEN (IF n + i < 0 THEN 0 ELSE n + i)
    ELSE IF i > n THEN n ELSE i

\* A slice that starts one position late.
SliceAfter(s, i) == SubSeq(s, SliceStart(Len(s), i) + 2, Len(s))

\* Python's s[i:] (line 396).
SliceFrom(s, i) == SubSeq(s, SliceStart(Len(s), i) + 1, Len(s))

(***************************************************************************)
(* MultiprocessStep: identities of children and the aggregate status.      *)
(***************************************************************************)
\* A step_id is None, a number n of a Pipeline's counter (<<n>>), or the
\* string '<group>-<n>' of a MultiprocessStep's counter (<<group..., n>>);
\* the text 'None' that str(None) gives is the number -1.
IdText(step_id) == IF step_id = None THEN <<-1>> ELSE step_id

\* MultiprocessStep.get_next_id (line 545-548).
ChildId(group) == IdText(group.step_id) \o <<group.next_id>>

\* multiprocessing.Pool.map called without chunksize (line 416): the tasks
\* are cut into chunks of this size; a chunk is pickled as one object and
\* run by one worker, task after task.
ChunkSize(n, processes) ==
    IF n = 0 THEN 0 ELSE (n + 4 * processes - 1) \div (4 * processes)

\* Line 420-431: s.results['status'] raises TypeError on a result that is
\* None and KeyError on a dictionary without a 'status' key; otherwise the
\* three-way aggregate.
AllStatus(children, status) ==
    \A j \in 1..Len(children) : children[j].results.status = status

Aggregate(children) ==
    IF \E j \in 1..Len(children) : children[j].results.kind # "dict"
    THEN LET first == CHOOSE j \in 1..Len(children) :
                          /\ children[j].results.kind # "dict"
                          /\ \A k \in 1..(j - 1) : children[k].results.kind = "dict"
         IN  [exc |-> IF children[first].results.kind = "None"
                      THEN "TypeError" ELSE "KeyError",
              results |-> NoResults]
    ELSE IF AllStatus(children, "success")
    THEN [exc |-> "", results |-> StatusDict("success")]
    ELSE IF AllStatus(children, "error")
    THEN [exc |-> "", results |-> StatusDict("error")]
    ELSE [exc |-> "", results |-> StatusDict("some failed")]

(***************************************************************************)
(* The inputs the model draws from.  The engine is driven by one of five   *)
(* callers.  The "policy" caller builds pipelines whose steps fail in      *)
(* every way the error and exception policy distinguishes, and runs them   *)
(* once under every setting of the run-level flags.  The "resume" caller   *)
(* builds tagged pipelines, runs them up to MaxRuns times with tag         *)
(* filters, resume, start_idx and explicit step lists, and saves and       *)
(* reloads the pipeline between runs.  The "checkpoint" caller runs such   *)
(* pipelines once with a log path, on a file system where save_pipeline    *)
(* may fail.  The "globals" caller builds pipelines whose work sets         *)
(* global_vars, with groups run by a pool of one worker, and runs them      *)
(* once.  The "identity" caller builds pipelines from functions and from    *)
(* step objects it constructs, with and without a step_id of its own        *)
(* choice, and runs them once.                                              *)
(***************************************************************************)
Callers == {"policy", "resume", "checkpoint", "globals", "identity"}
Flag == {None, Some(TRUE), Some(FALSE)}

\* add_step(func, tags, ignore_errors, ignore_exceptions)
StepInput(func, tags, ie, iex) ==
    [func |-> func, tags |-> tags, ignore_errors |-> ie, ignore_exceptions |-> iex]

StepInputs(c) ==
    IF c = "globals" THEN {StepInput("setvar", {}, FALSE, FALSE)}
    ELSE IF c = "identity" THEN {StepInput("success", {}, FALSE, FALSE)}
    ELSE IF c = "policy"
    THEN {StepInput("raise", {}, ie, iex) : ie \in BOOLEAN, iex \in BOOLEAN}
         \cup {StepInput(f, {}, ie, FALSE) : f \in {"success", "error"}, ie \in BOOLEAN}
         \cup {StepInput(f, {}, FALSE, FALSE) : f \in {"Error", "none", "nokey"}}
    ELSE {StepInput("success", t, FALSE, FALSE) : t \in {{"a"}, {"a", "b"}}}
         \cup {StepInput("raise_once", {}, FALSE, FALSE)}

ChildInputs(c) ==
    IF c = "globals" THEN {StepInput("setvar", {}, FALSE, FALSE)}
    ELSE IF c = "identity" THEN {StepInput("success", {}, FALSE, FALSE)}
    ELSE IF c = "policy"
    THEN {StepInput("success", {}, FALSE, FALSE), StepInput("error", {}, TRUE, FALSE),
          StepInput("raise", {}, FALSE, TRUE), StepInput("none", {}, FALSE, FALSE)}
    ELSE {StepInput("success", {}, FALSE, FALSE), StepInput("error", {}, FALSE, FALSE)}

\* MultiprocessStep(tags=...)
GroupTags(c) == IF c \in {"policy", "globals", "identity"} THEN {{}} ELSE {{"a"}}

\* The step_id a caller gives a step object it constructs: None, the number
\* 1, or a string of its own (the number -2 stands for it).
StepIds(c) == IF c = "identity" THEN {None, Some(1), Some(-2)} ELSE {None}

\* PipelineStep(func, step_id=...): the step objects a caller constructs.
StepObjects(c) ==
    IF c = "identity"
    THEN {PipelineStep("success", step_id, {}, FALSE, FALSE) : step_id \in StepIds(c)}
    ELSE {}

\* MultiprocessStep(steps=...)
GroupChildren(c) == {<<>>} \cup {<<obj>> : obj \in StepObjects(c)}

\* MultiprocessStep(pool_size=...)
PoolSizes(c) == IF c = "globals" THEN {Some(1)} ELSE {None}

\* How many children a caller gives a MultiprocessStep at most.
ChildLimit(c) == IF c = "globals" THEN MaxChunked ELSE MaxChildren

RunArgsOf(run_tags, ignore_tags, explicit, resume, ie, iex, start_idx, log_exception) ==
    [run_tags |-> run_tags, ignore_tags |-> ignore_tags, run_steps |-> explicit,
     resume |-> resume, ignore_errors |-> ie, ignore_exceptions |-> iex,
     start_idx |-> start_idx, log_exception |-> log_exception]

\* A list of step objects a caller passes as run_steps, for a pipeline of
\* n steps: the pipeline's steps in reverse.
Reversed(n) == [i \in 1..n |-> n + 1 - i]

TagFilters == {<<{}, {}>>, <<{}, {"b"}>>, <<{"a"}, {"b"}>>}

\* The calls of run a caller makes on a pipeline of n steps.
RunArgs(c, n) ==
    IF c \in {"globals", "identity"}
    THEN {RunArgsOf({}, {}, None, FALSE, None, None, None, FALSE)}
    ELSE IF c = "policy"
    THEN {RunArgsOf({}, {}, None, FALSE, ie, iex, None, FALSE) : ie \in Flag, iex \in Flag}
    ELSE IF c = "checkpoint"
    THEN {RunArgsOf({}, {}, None, FALSE, None, None, si, le) :
              si \in {None, Some(1)}, le \in BOOLEAN}
    ELSE {RunArgsOf(f[1], f[2], None, r, None, None, None, FALSE) :
              f \in TagFilters, r \in BOOLEAN}
         \cup {RunArgsOf({}, {}, None, r, None, None, Some(i), FALSE) :
              r \in BOOLEAN, i \in {1, MaxSteps}}
         \cup {RunArgsOf(f[1], f[2], Some(Reversed(n)), r, None, None, None, FALSE) :
              f \in {<<{}, {}>>, <<{"a"}, {"b"}>>}, r \in BOOLEAN}

\* How many times a caller calls run.
Runs(c) == IF c = "resume" THEN MaxRuns ELSE 1

(***************************************************************************)
(* State.                                                                  *)
(***************************************************************************)
VARIABLES
    caller,         \* which caller drives the engine
    steps,          \* Pipeline.steps: the step objects, in insertion order
    next_id,        \* Pipeline.next_id
    has_log,        \* 'log' in Pipeline.paths
    fixed,          \* outside the pipeline: what made "raise_once" work raise is fixed
    run_steps,      \* Pipeline.run_steps: None or the working list (references)
    run_step_idx,   \* Pipeline.run_step_idx: the cursor
    global_vars,    \* Pipeline.global_vars: the attribute the work sets
    mstep,          \* a MultiprocessStep the caller holds, not yet added: None or the object
    save_failures,  \* times save_pipeline has failed
    disk,           \* the pipeline file: the state save_pipeline last wrote, or None
                    \* (no file, or a file load_pipeline cannot read)
    pc,             \* where Pipeline.run stands: "idle" (never called), "loop" (the head
                    \* of its loop), "pool" (in pool.map), "joined" (pool.map has
                    \* returned), "done" (the call is over)
    args,           \* the arguments of the current (or last) call of run
    skip_save,      \* run's local skip_save
    todo,           \* what is left of run's local `steps = run_steps[run_step_idx:]`
    pool,           \* the tasks of the pool.map in progress, one per child
    chunk_vars,     \* the workers' copies of global_vars, one per chunk of tasks
    ret,            \* how the last call of run ended: "" | "success" | the exception raised
    executed,       \* history: the units dispatched by the current (or last) run, in order
    saves,          \* history: the cursor each checkpoint of the current run recorded
    save_calls,     \* history: the calls of save_pipeline of the current run: the
                    \* cursor the pipeline held and whether the file was written
    prev,           \* history: the engine's working list and cursor when run was called
    stopped,        \* history: the working list and cursor when the last run ended
    loaded,         \* history: load_pipeline replaced the engine since the last run ended
    nruns,          \* history: calls of run so far
    counted         \* history: the positions in steps of the units whose step_id
                    \* the pipeline's get_next_id gave

vars == <<caller, steps, next_id, has_log, fixed, run_steps, run_step_idx, global_vars, mstep,
          save_failures, disk, pc, args, skip_save, todo, pool, chunk_vars, ret, executed, saves,
          save_calls, prev, stopped, loaded, nruns, counted>>

engine == <<steps, next_id, run_steps, run_step_idx, global_vars>>
locals == <<args, skip_save, todo, pool, chunk_vars>>
history == <<executed, saves, save_calls, prev, stopped, loaded, nruns>>

NoArgs ==
    [run_tags |-> {}, ignore_tags |-> {}, run_steps |-> None, resume |-> FALSE,
     ignore_errors |-> None, ignore_exceptions |-> None, start_idx |-> None,
     log_exception |-> FALSE]

Cursor(rs, idx) == [run_steps |-> rs, run_step_idx |-> idx]

NoPrev == [run_steps |-> None, run_step_idx |-> 0, ret |-> "", args |-> NoArgs,
           executed |-> <<>>, stopped |-> Cursor(None, 0), loaded |-> FALSE]

\* Pipeline.__init__ (line 196-203).
Init ==
    /\ caller \in Callers
    /\ steps = <<>>
    /\ next_id = 0
    /\ has_log \in (CASE caller \in {"policy", "globals", "identity"} -> {FALSE}
                       [] caller = "checkpoint" -> {TRUE}
                       [] OTHER -> BOOLEAN)
    /\ fixed = FALSE
    /\ run_steps = None
    /\ run_step_idx = 0
    /\ global_vars = None
    /\ mstep = None
    /\ save_failures = 0
    /\ disk = None
    /\ pc = "idle"
    /\ args = NoArgs
    /\ skip_save = TRUE
    /\ todo = <<>>
    /\ pool = <<>>
    /\ chunk_vars = <<>>
    /\ ret = ""
    /\ executed = <<>>
    /\ saves = <<>>
    /\ save_calls = <<>>
    /\ prev = NoPrev
    /\ stopped = Cursor(None, 0)
    /\ loaded = FALSE
    /\ nruns = 0
    /\ counted = {}

\* No call of run is in progress.
Idle == pc \in {"idle", "done"}

(***************************************************************************)
(* Building the pipeline.                                                  *)
(***************************************************************************)
\* The units of the pipeline other than a plain step that succeeds.
Special(step) ==
    \/ step._step_type = "MultiprocessStep"
    \/ step.func # "success"
    \/ step.ignore_errors
    \/ step.ignore_exceptions
Specials == {i \in 1..Len(steps) : Special(steps[i])}
Groups == {i \in 1..Len(steps) : steps[i]._step_type = "MultiprocessStep"}

\* StepContainer.add_step on the Pipeline with a function (line 150-159).
AddStep(inp) ==
    /\ pc = "idle"
    /\ Len(steps) < MaxSteps
    /\ Special(PipelineStep(inp.func, None, inp.tags, inp.ignore_errors,
                            inp.ignore_exceptions))
          => Cardinality(Specials) < MaxSpecial
    /\ steps' = Append(steps, PipelineStep(inp.func, Some(next_id), inp.tags,
                                           inp.ignore_errors, inp.ignore_exceptions))
    /\ next_id' = next_id + 1
    /\ counted' = counted \cup {Len(steps) + 1}
    /\ UNCHANGED <<caller, fixed, has_log, run_steps, run_step_idx, global_vars, mstep,
                   save_failures, disk, pc, ret>>
    /\ UNCHANGED <<locals, history>>

\* StepContainer.add_step on the Pipeline with a PipelineStep object the
\* caller constructs (line 146-149).
AddPipelineStepObject(obj) ==
    /\ pc = "idle"
    /\ Len(steps) < MaxSteps
    /\ IF obj.step_id = None
       THEN /\ steps' = Append(steps, [obj EXCEPT !.step_id = Some(next_id)])
            /\ next_id' = next_id + 1
            /\ counted' = counted \cup {Len(steps) + 1}
       ELSE /\ steps' = Append(steps, obj)
            /\ next_id' = next_id
            /\ counted' = counted
    /\ UNCHANGED <<caller, fixed, has_log, run_steps, run_step_idx, global_vars, mstep,
                   save_failures, disk, pc, ret>>
    /\ UNCHANGED <<locals, history>>

\* The caller constructs MultiprocessStep(step_id=step_id, tags=tags,
\* steps=children, pool_size=pool_size) (line 524-543).
NewMultiprocessStep(step_id, tags, children, pool_size) ==
    /\ pc = "idle"
    /\ mstep = None
    /\ Len(steps) < MaxSteps
    /\ Cardinality(Groups) < MaxGroups
    /\ Cardinality(Specials) < MaxSpecial
    /\ mstep' = Some(MultiprocessStep(step_id, tags, children, pool_size))
    /\ UNCHANGED <<caller, counted, fixed, has_log, save_failures, disk, pc, ret>>
    /\ UNCHANGED <<engine, locals, history>>

\* StepContainer.add_step on that MultiprocessStep with a function.
MStepAddStep(inp) ==
    /\ pc = "idle"
    /\ mstep # None
    /\ Len(mstep[1].steps) < ChildLimit(caller)
    /\ LET g == mstep[1]
           child == PipelineStep(inp.func, ChildId(g), inp.tags,
                                 inp.ignore_errors, inp.ignore_exceptions)
       IN  mstep' = Some([g EXCEPT !.steps = Append(@, child), !.next_id = @ + 1])
    /\ UNCHANGED <<caller, counted, fixed, has_log, save_failures, disk, pc, ret>>
    /\ UNCHANGED <<engine, locals, history>>

\* StepContainer.add_step on that MultiprocessStep with a PipelineStep
\* object the caller constructs (line 146-149, with the get_next_id of line
\* 545-548).
MStepAddStepObject(obj) ==
    /\ pc = "idle"
    /\ mstep # None
    /\ Len(mstep[1].steps) < ChildLimit(caller)
    /\ LET g == mstep[1]
       IN  mstep' = IF obj.step_id = None
                    THEN Some([g EXCEPT !.steps = Append(@, [obj EXCEPT !.step_id = ChildId(g)]),
                                        !.next_id = @ + 1])
                    ELSE Some([g EXCEPT !.steps = Append(@, obj)])
    /\ UNCHANGED <<caller, counted, fixed, has_log, save_failures, disk, pc, ret>>
    /\ UNCHANGED <<engine, locals, history>>

\* An add_step that gives the object the next counter value whether or not
\* it has a step_id.
AddStepObjectRenumbered ==
    /\ pc = "idle"
    /\ mstep # None
    /\ Len(steps) < MaxSteps
    /\ steps' = Append(steps, [mstep[1] EXCEPT !.step_id = Some(next_id)])
    /\ next_id' = next_id + 1
    /\ counted' = counted \cup {Len(steps) + 1}
    /\ mstep' = None
    /\ UNCHANGED <<caller, fixed, has_log, run_steps, run_step_idx, global_vars,
                   save_failures, disk, pc, ret>>
    /\ UNCHANGED <<locals, history>>

\* StepContainer.add_step on the Pipeline with that object (line 146-149).
AddStepObject ==
    /\ pc = "idle"
    /\ mstep # None
    /\ Len(steps) < MaxSteps
    /\ LET g == mstep[1]
       IN  IF g.step_id = None
           THEN /\ steps' = Append(steps, [g EXCEPT !.step_id = Some(next_id)])
                /\ next_id' = next_id + 1
                /\ counted' = counted \cup {Len(steps) + 1}
           ELSE /\ steps' = Append(steps, g)
                /\ next_id' = next_id
                /\ counted' = counted
    /\ mstep' = None
    /\ UNCHANGED <<caller, fixed, has_log, run_steps, run_step_idx, global_vars,
                   save_failures, disk, pc, ret>>
    /\ UNCHANGED <<locals, history>>

(***************************************************************************)
(* Pipeline.run.                                                           *)
(***************************************************************************)
\* What save_pipeline pickles: the Pipeline object.
Snapshot(s, n, rs, idx, gv) ==
    [steps |-> s, next_id |-> n, run_steps |-> rs, run_step_idx |-> idx,
     global_vars |-> gv]

\* Whether save_pipeline succeeds is the environment's choice.
SaveOutcomes ==
    IF caller = "checkpoint" /\ save_failures < MaxSaveFailures THEN BOOLEAN ELSE {TRUE}

\* save_pipeline(logfile) (line 229-285) with outcome ok, the file holding
\* snapshot afterwards if it succeeded.  A save that fails leaves the file
\* as it was when the file cannot be opened, and empty when the dump fails
\* after open(logfile, 'wb').
Save(ok, snapshot) ==
    /\ disk' \in IF ok THEN {Some(snapshot)} ELSE {disk, None}
    /\ save_failures' = IF ok THEN save_failures ELSE save_failures + 1

\* Line 363-396: selection, filter, the checkpoint at the start, the cursor
\* and the slice the loop will iterate.
RunBegin(a) ==
    /\ Idle
    /\ mstep = None
    /\ nruns < Runs(caller)
    /\ LET filtered == FilterSteps(steps,
                           Candidates(steps, run_steps, a.run_steps, a.resume),
                           a.run_tags, a.ignore_tags)
           cursor == StartCursor(run_step_idx, a.start_idx, a.resume)
       IN  /\ run_steps' = Some(filtered)
           /\ IF has_log
              THEN \E ok \in SaveOutcomes :
                     /\ Save(ok, Snapshot(steps, next_id, Some(filtered), run_step_idx,
                                       global_vars))
                     /\ saves' = IF ok THEN <<run_step_idx>> ELSE <<>>
                     /\ save_calls' = <<[cursor |-> run_step_idx, ok |-> ok]>>
                     /\ skip_save' = ~ok
              ELSE /\ UNCHANGED <<disk, save_failures>>
                   /\ saves' = <<>>
                   /\ save_calls' = <<>>
                   /\ skip_save' = TRUE
           /\ (
                IF has_log /\ skip_save' /\ a.log_exception
                THEN /\ pc' = "done"
                     /\ ret' = "PipelineError"
                     /\ run_step_idx' = run_step_idx
                     /\ todo' = <<>>
                     /\ stopped' = Cursor(Some(filtered), run_step_idx)
                ELSE /\ pc' = "loop"
                     /\ ret' = ""
                     /\ run_step_idx' = cursor
                     /\ todo' = SliceFrom(filtered, cursor)
                     /\ stopped' = stopped)
    /\ args' = a
    /\ pool' = <<>>
    /\ chunk_vars' = <<>>
    /\ executed' = <<>>
    /\ prev' = [run_steps |-> run_steps, run_step_idx |-> run_step_idx, ret |-> ret,
                args |-> args, executed |-> executed, stopped |-> stopped,
                loaded |-> loaded]
    /\ loaded' = FALSE
    /\ nruns' = nruns + 1
    /\ UNCHANGED <<caller, counted, fixed, steps, next_id, global_vars, has_log, mstep>>

\* The end of an iteration with the cursor moved on by two.
AdvanceByTwo(newSteps) ==
    /\ steps' = newSteps
    /\ run_step_idx' = run_step_idx + 2
    /\ todo' = Tail(todo)
    /\ pc' = "loop"
    /\ UNCHANGED <<disk, save_failures, saves, save_calls, ret, stopped>>

\* The end of an iteration without the checkpoint.
AdvanceNoSave(newSteps) ==
    /\ steps' = newSteps
    /\ run_step_idx' = run_step_idx + 1
    /\ todo' = Tail(todo)
    /\ pc' = "loop"
    /\ UNCHANGED <<disk, save_failures, saves, save_calls, ret, stopped>>

\* Line 432-435 after a unit: the cursor moves on and the pipeline is saved
\* (with global_vars as the unit left it).
Advance(newSteps) ==
    /\ steps' = newSteps
    /\ run_step_idx' = run_step_idx + 1
    /\ todo' = Tail(todo)
    /\ pc' = "loop"
    /\ IF skip_save
       THEN UNCHANGED <<disk, save_failures, saves, save_calls>>
       ELSE \E ok \in SaveOutcomes :
              /\ Save(ok, Snapshot(newSteps, next_id, run_steps, run_step_idx + 1,
                                   global_vars'))
              /\ saves' = IF ok THEN Append(saves, run_step_idx + 1) ELSE saves
              /\ save_calls' = Append(save_calls,
                                      [cursor |-> run_step_idx + 1, ok |-> ok])
    /\ UNCHANGED <<ret, stopped>>

\* An exception that leaves run only after the cursor has moved on.
AbortPastUnit(newSteps, exc) ==
    /\ steps' = newSteps
    /\ pc' = "done"
    /\ ret' = exc
    /\ todo' = <<>>
    /\ run_step_idx' = run_step_idx + 1
    /\ stopped' = Cursor(run_steps, run_step_idx + 1)
    /\ UNCHANGED <<disk, save_failures, saves, save_calls>>

\* An exception leaves run: nothing after the raise is executed.
Abort(newSteps, exc) ==
    /\ steps' = newSteps
    /\ pc' = "done"
    /\ ret' = exc
    /\ todo' = <<>>
    /\ stopped' = Cursor(run_steps, run_step_idx)
    /\ UNCHANGED <<run_step_idx, disk, save_failures, saves, save_calls>>

\* The position in the working list of the unit the loop is at.
Position == Len(run_steps[1]) - Len(todo)

\* Line 400-403, 432-435: one iteration of the loop on a PipelineStep.
RunPipelineStep ==
    /\ pc = "loop"
    /\ todo # <<>>
    /\ steps[Head(todo)]._step_type = "PipelineStep"
    /\ global_vars' = FuncGlobals(steps[Head(todo)], global_vars)
    /\ LET ref == Head(todo)
           out == run_step(steps[ref], args.ignore_errors, args.ignore_exceptions, fixed)
           newSteps == [steps EXCEPT ![ref] = out.step]
       IN  IF out.exc # ""
           THEN Abort(newSteps, out.exc)
           ELSE Advance(newSteps)
    /\ fixed' = (fixed \/ steps[Head(todo)].func = "raise_once")
    /\ executed' = Append(executed, [ref |-> Head(todo), pos |-> Position,
                                     saw |-> global_vars])
    /\ UNCHANGED <<caller, counted, next_id, has_log, run_steps, mstep, args, skip_save, pool,
                   chunk_vars, prev, loaded, nruns>>

\* Line 404-415: the tasks of a MultiprocessStep are handed to pool.map,
\* each with a copy of its child; the tasks of one chunk share one copy of
\* global_vars, pickled when the chunk is.  saw is the attribute of
\* global_vars a task's work found.
PoolMap ==
    /\ pc = "loop"
    /\ todo # <<>>
    /\ steps[Head(todo)]._step_type = "MultiprocessStep"
    /\ pool' = [j \in 1..Len(steps[Head(todo)].steps) |->
                   [state |-> "pending", exc |-> "", order |-> 0, saw |-> None,
                    task |-> steps[Head(todo)].steps[j],
                    step |-> steps[Head(todo)].steps[j]]]
    /\ chunk_vars' = [j \in 1..Len(steps[Head(todo)].steps) |-> global_vars]
    /\ pc' = "pool"
    /\ executed' = Append(executed, [ref |-> Head(todo), pos |-> Position,
                                     saw |-> global_vars])
    /\ UNCHANGED <<caller, counted, fixed, has_log, mstep, save_failures, disk, args, skip_save, todo,
                   ret, saves, save_calls, prev, stopped, loaded, nruns>>
    /\ UNCHANGED engine

Running == {j \in 1..Len(pool) : pool[j].state = "running"}
Pending == {j \in 1..Len(pool) : pool[j].state = "pending"}
Finished == {j \in 1..Len(pool) : pool[j].state = "done"}

\* The chunk a task belongs to, whether it is the first of its chunk, and
\* the chunks a worker is busy with: begun, and neither finished nor broken
\* off by a task that raised.
ChunkOf(j) ==
    (j - 1) \div ChunkSize(Len(pool), steps[Head(todo)].pool_size) + 1
FirstOfChunk(j) == j = 1 \/ ChunkOf(j - 1) # ChunkOf(j)
BusyChunks ==
    {ChunkOf(j) : j \in {k \in 1..Len(pool) :
        /\ \E i \in 1..Len(pool) : ChunkOf(i) = ChunkOf(k) /\ pool[i].state # "pending"
        /\ \E i \in 1..Len(pool) : ChunkOf(i) = ChunkOf(k) /\ pool[i].state # "done"
        /\ \A i \in 1..Len(pool) : ChunkOf(i) = ChunkOf(k) => pool[i].exc = ""}}

\* A worker process takes the next chunk of the queue and begins its first
\* task, or goes on to the next task of the chunk it holds.
WorkerStart(j) ==
    /\ pc = "pool"
    /\ j \in Pending
    /\ IF FirstOfChunk(j)
       THEN /\ \A k \in Pending : FirstOfChunk(k) => j <= k
            /\ Cardinality(BusyChunks) < steps[Head(todo)].pool_size
       ELSE /\ pool[j - 1].state = "done"
            /\ pool[j - 1].exc = ""
    /\ pool' = [pool EXCEPT ![j].state = "running"]
    /\ UNCHANGED <<caller, counted, fixed, has_log, mstep, save_failures, disk, pc, args, skip_save,
                   todo, chunk_vars, ret>>
    /\ UNCHANGED <<engine, history>>

\* The worker runs run_step on its copy of the child (task) and hands back
\* the step it returns, or the exception it raises.  order counts the tasks
\* that were over before this one.
WorkerFinish(j) ==
    /\ pc = "pool"
    /\ j \in Running
    /\ LET out == run_step(pool[j].task, args.ignore_errors, args.ignore_exceptions,
                           fixed)
       IN  pool' = [pool EXCEPT ![j] = [state |-> "done", exc |-> out.exc,
                                        order |-> Cardinality(Finished),
                                        saw |-> chunk_vars[ChunkOf(j)],
                                        task |-> pool[j].task,
                                        step |-> out.step]]
    /\ chunk_vars' = [chunk_vars EXCEPT ![ChunkOf(j)] = FuncGlobals(pool[j].task, @)]
    /\ fixed' = (fixed \/ pool[j].task.func = "raise_once")
    /\ UNCHANGED <<caller, counted, has_log, mstep, save_failures, disk, pc, args, skip_save,
                   todo, ret>>
    /\ UNCHANGED <<engine, history>>

\* The tasks' results in the order in which the tasks were over.
PoolResultsAsCompleted(tasks) ==
    [j \in 1..Len(tasks) |->
        tasks[CHOOSE t \in 1..Len(tasks) : tasks[t].order = j - 1].step]

\* What pool.map returns: the tasks' results in the order of the tasks.
PoolResults(tasks) == [j \in 1..Len(tasks) |-> tasks[j].step]

\* A pool.map that returns as soon as one task is over.
PoolJoinEarly ==
    /\ pc = "pool"
    /\ \E j \in 1..Len(pool) : pool[j].state = "done"
    /\ \A j \in 1..Len(pool) : pool[j].exc = ""
    /\ steps' = [steps EXCEPT ![Head(todo)].steps = PoolResults(pool)]
    /\ pc' = "joined"
    /\ UNCHANGED <<caller, counted, fixed, next_id, has_log, run_steps, run_step_idx, global_vars,
                   mstep, save_failures, disk, ret>>
    /\ UNCHANGED <<locals, history>>

\* Line 416-419: pool.map returns and the children are replaced by the
\* steps the workers returned.
PoolJoin ==
    /\ pc = "pool"
    /\ \A j \in 1..Len(pool) : pool[j].state = "done" /\ pool[j].exc = ""
    /\ steps' = [steps EXCEPT ![Head(todo)].steps = PoolResults(pool)]
    /\ pc' = "joined"
    /\ UNCHANGED <<caller, counted, fixed, next_id, has_log, run_steps, run_step_idx, global_vars,
                   mstep, save_failures, disk, ret>>
    /\ UNCHANGED <<locals, history>>

\* An aggregate other than 'success' that ends the run.
GroupResultsAborting ==
    /\ pc = "joined"
    /\ global_vars' = global_vars
    /\ LET ref == Head(todo)
           agg == Aggregate(steps[ref].steps)
           newSteps == [steps EXCEPT ![ref].results = agg.results]
       IN  IF agg.exc # ""
           THEN Abort(steps, agg.exc)
           ELSE IF agg.results.status # "success"
           THEN Abort(newSteps, "PipelineError")
           ELSE Advance(newSteps)
    /\ pool' = <<>>
    /\ chunk_vars' = <<>>
    /\ UNCHANGED <<caller, counted, fixed, next_id, has_log, run_steps, mstep, args, skip_save, executed,
                   prev, loaded, nruns>>

\* Line 420-435: the aggregate status is derived; then the cursor moves on.
GroupResults ==
    /\ pc = "joined"
    /\ global_vars' = global_vars
    /\ LET ref == Head(todo)
           agg == Aggregate(steps[ref].steps)
       IN  IF agg.exc # ""
           THEN Abort(steps, agg.exc)
           ELSE Advance([steps EXCEPT ![ref].results = agg.results])
    /\ pool' = <<>>
    /\ chunk_vars' = <<>>
    /\ UNCHANGED <<caller, counted, fixed, next_id, has_log, run_steps, mstep, args, skip_save, executed,
                   prev, loaded, nruns>>

\* pool.map raises the exception a task raised: at once, or when every
\* task is over, depending on the interpreter.
PoolRaise(j) ==
    /\ pc = "pool"
    /\ j \in 1..Len(pool)
    /\ pool[j].state = "done"
    /\ pool[j].exc # ""
    /\ Abort(steps, pool[j].exc)
    /\ pool' = <<>>
    /\ chunk_vars' = <<>>
    /\ UNCHANGED <<caller, counted, fixed, global_vars, next_id, has_log, run_steps, mstep, args, skip_save, executed,
                   prev, loaded, nruns>>

\* Line 436-439: the loop is over.
RunReturn ==
    /\ pc = "loop"
    /\ todo = <<>>
    /\ pc' = "done"
    /\ ret' = "success"
    /\ stopped' = Cursor(run_steps, run_step_idx)
    /\ UNCHANGED <<caller, counted, fixed, has_log, mstep, save_failures, disk, executed, saves,
                   save_calls, prev, loaded, nruns>>
    /\ UNCHANGED <<engine, locals>>

(***************************************************************************)
(* The pipeline file after a run.                                          *)
(***************************************************************************)
\* load_pipeline (line 20-51): the caller goes on with the pipeline read
\* from the file.
LoadPipeline ==
    /\ pc = "done"
    /\ disk # None
    /\ steps' = disk[1].steps
    /\ next_id' = disk[1].next_id
    /\ run_steps' = disk[1].run_steps
    /\ run_step_idx' = disk[1].run_step_idx
    /\ global_vars' = disk[1].global_vars
    /\ loaded' = TRUE
    /\ UNCHANGED <<caller, counted, fixed, has_log, mstep, save_failures, disk, pc, ret, executed,
                   saves, save_calls, prev, stopped, nruns>>
    /\ UNCHANGED locals

Next ==
    \/ \E inp \in StepInputs(caller) : AddStep(inp)
    \/ \E obj \in StepObjects(caller) : AddPipelineStepObject(obj)
    \/ \E step_id \in StepIds(caller), tags \in GroupTags(caller),
          children \in GroupChildren(caller), pool_size \in PoolSizes(caller) :
          NewMultiprocessStep(step_id, tags, children, pool_size)
    \/ \E inp \in ChildInputs(caller) : MStepAddStep(inp)
    \/ \E obj \in StepObjects(caller) : MStepAddStepObject(obj)
    \/ AddStepObject
    \/ \E a \in RunArgs(caller, Len(steps)) : RunBegin(a)
    \/ RunPipelineStep
    \/ PoolMap
    \/ \E j \in 1..MaxChunked : WorkerStart(j)
    \/ \E j \in 1..MaxChunked : WorkerFinish(j)
    \/ PoolJoin
    \/ GroupResults
    \/ \E j \in 1..MaxChunked : PoolRaise(j)
    \/ RunReturn
    \/ LoadPipeline

Spec == Init /\ [][Next]_vars

\* The steps of a call of run: of its loop (line 397-439) and of the worker
\* processes of its pool.
RunSteps ==
    \/ RunPipelineStep
    \/ PoolMap
    \/ \E j \in 1..MaxChunked : WorkerStart(j)
    \/ \E j \in 1..MaxChunked : WorkerFinish(j)
    \/ PoolJoin
    \/ GroupResults
    \/ \E j \in 1..MaxChunked : PoolRaise(j)
    \/ RunReturn

\* The work of every step and every save_pipeline terminate, and the
\* interpreter and the worker processes keep running: a call of run that can
\* take a step takes one.  The caller is free to stop at any time.
FairSpec == Spec /\ WF_vars(RunSteps)

(***************************************************************************)
(* Properties.                                                             *)
(***************************************************************************)
\* The units the current (or last) run dispatched, in order.
ExecRefs == [k \in 1..Len(executed) |-> executed[k].ref]

\* The pipeline's units in declaration order.
Declared == [i \in 1..Len(steps) |-> i]

\* The run was aborted by the k-th unit it dispatched.
AbortedAt(k) == pc = "done" /\ ret # "success" /\ k = Len(executed)

\* The flag in force for a step: the run-level argument unless it is None.
Effective(run_level, step_level) ==
    IF run_level # None THEN run_level[1] ELSE step_level

\* C1: no unit a run executes carries a tag of ignore_tags, even when it
\* also carries a tag of run_tags; and when run_tags is not empty every
\* unit a run executes carries a tag of run_tags.  This holds with and
\* without an explicit step list, resume and start_idx.
C1_TagFilter ==
    \A k \in 1..Len(executed) :
        LET tags == steps[executed[k].ref].tags
        IN  /\ tags \cap args.ignore_tags = {}
            /\ args.run_tags # {} => tags \cap args.run_tags # {}

\* A finished run with both filters set, over a pipeline with a unit that
\* carries a run tag and an ignored tag, that executed some unit.
C1_Witness ==
    /\ pc = "done"
    /\ ret = "success"
    /\ args.run_tags # {}
    /\ args.ignore_tags # {}
    /\ executed # <<>>
    /\ \E i \in 1..Len(steps) :
          /\ steps[i].tags \cap args.run_tags # {}
          /\ steps[i].tags \cap args.ignore_tags # {}

\* A call of run that selects nothing: no tags, no resume, no start_idx, no
\* explicit step list.
DefaultSelection ==
    /\ nruns > 0
    /\ args.run_tags = {}
    /\ args.ignore_tags = {}
    /\ args.run_steps = None
    /\ ~args.resume
    /\ args.start_idx = None

\* C2 (as stated): a run that selects nothing executes every unit of the
\* pipeline exactly once, in declaration order.
C2_EveryUnitOnce ==
    (pc = "done" /\ DefaultSelection) => ExecRefs = Declared

\* C2 (amended): a run that selects nothing executes the units in
\* declaration order, each once, up to the unit that aborts it; a run that
\* returns has executed every unit of the pipeline exactly once.
C2_EveryUnitOnceUnlessAborted ==
    DefaultSelection =>
        /\ ExecRefs = SubSeq(Declared, 1, Len(executed))
        /\ (pc = "done" /\ ret = "success") => ExecRefs = Declared

\* A run that selects nothing has returned from a full pipeline that holds
\* a MultiprocessStep.
C2_Witness ==
    /\ DefaultSelection
    /\ pc = "done"
    /\ ret = "success"
    /\ Len(steps) = MaxSteps
    /\ Groups # {}
    /\ Len(executed) = MaxSteps

\* C3 (as stated): a step whose status is 'error' (in any case) aborts the
\* run exactly when the ignore_errors flag in force is false, the run-level
\* argument being in force unless it is None; a step whose status is
\* 'success' never aborts the run.
C3_ErrorStatusPolicy ==
    ~loaded =>
        \A k \in 1..Len(executed) :
            LET u == steps[executed[k].ref]
            IN  (u._step_type = "PipelineStep" /\ u.results.kind = "dict") =>
                  /\ Lower(u.results.status) = "error" =>
                        (AbortedAt(k)
                            <=> ~Effective(args.ignore_errors, u.ignore_errors))
                  /\ Lower(u.results.status) = "success" => ~AbortedAt(k)

\* C4 (as stated): when the work of a step raises and the
\* ignore_exceptions flag in force is true, the step's result has status
\* 'error', the run is not aborted, the cursor moves past the step and the
\* next unit of the working list, if any, is executed; whatever the
\* ignore_errors flags.
C4_CapturedFaultContinues ==
    ~loaded =>
        \A k \in 1..Len(executed) :
            LET u == steps[executed[k].ref]
            IN  (/\ u._step_type = "PipelineStep"
                 /\ FuncCall(u.func, FALSE).raises
                 /\ Effective(args.ignore_exceptions, u.ignore_exceptions)) =>
                  /\ u.results.kind = "dict"
                  /\ u.results.status = "error"
                  /\ ~AbortedAt(k)
                  /\ run_step_idx > executed[k].pos
                  /\ pc = "done" =>
                        \/ k < Len(executed)
                        \/ executed[k].pos + 1 = Len(run_steps[1])

\* The call of run in progress (or over) follows another, with resume and
\* neither start_idx nor an explicit step list.
Resumed ==
    /\ nruns >= 2
    /\ args.resume
    /\ args.start_idx = None
    /\ args.run_steps = None

\* The run before was aborted by a unit, and the pipeline was not reloaded.
AfterAbort ==
    /\ prev.ret \notin {"", "success"}
    /\ prev.executed # <<>>
    /\ ~prev.loaded

SameFilters ==
    /\ args.run_tags = prev.args.run_tags
    /\ args.ignore_tags = prev.args.ignore_tags

\* C5: when the unit at position i aborts a run, no unit after it has been
\* executed, no checkpoint has been written for it, and the cursor is left
\* at i; a run that follows with resume, no start_idx and the same filters
\* executes that unit first.
C5_AbortKeepsCursor ==
    /\ (pc = "done" /\ ret # "success" /\ executed # <<>> /\ ~loaded) =>
          LET i == executed[Len(executed)].pos
          IN  /\ run_step_idx = i
              /\ run_steps[1][i + 1] = executed[Len(executed)].ref
              /\ \A k \in 1..Len(executed) : executed[k].pos <= i
              /\ Len(saves) <= Len(executed)
              /\ \A n \in 2..Len(saves) : saves[n] <= i
    /\ (Resumed /\ AfterAbort /\ SameFilters) =>
          LET unit == prev.executed[Len(prev.executed)].ref
          IN  IF executed = <<>>
              THEN pc = "loop" /\ todo # <<>> /\ Head(todo) = unit
              ELSE executed[1].ref = unit

\* A run aborted by its second unit or a later one was followed by a run
\* with resume and the same filters, which has executed a unit.
C5_Witness ==
    /\ Resumed
    /\ AfterAbort
    /\ SameFilters
    /\ Len(prev.executed) >= 2
    /\ executed # <<>>

\* The engine the resuming call found is the one the run before left: the
\* same working list and the same cursor.
AtStop ==
    /\ prev.run_steps # None
    /\ prev.stopped = Cursor(prev.run_steps, prev.run_step_idx)

\* The working list the run before left, what of it lies at and after the
\* cursor, and the units of it that lie before the cursor.
PriorList == prev.run_steps[1]
PriorRest == SliceFrom(PriorList, prev.run_step_idx)
BeforeCursor ==
    {PriorList[p] : p \in {q \in 1..Len(PriorList) : q <= prev.run_step_idx}}

\* The run has executed the units of PriorRest, in order, as far as it got,
\* and none that lies before the cursor.
ContinuesFromCursor ==
    /\ Len(executed) <= Len(PriorRest)
    /\ \A k \in 1..Len(executed) : ExecRefs[k] = PriorRest[k]
    /\ (pc = "done" /\ ret = "success") => Len(executed) = Len(PriorRest)
    /\ \A k \in 1..Len(executed) : ExecRefs[k] \notin BeforeCursor

\* C6 (as stated): a run with resume and no start_idx continues from the
\* cursor at which the run before stopped: the first unit it executes is
\* the unit of the prior working list at the cursor, the rest follow in
\* order, and no unit before the cursor is executed again; also when the
\* pipeline was saved and reloaded in between.
C6_ResumeFromCursor ==
    (Resumed /\ AtStop) => ContinuesFromCursor

\* The filters of the call keep every unit of the prior working list.
KeepsPriorList ==
    FilterSteps(steps, PriorList, args.run_tags, args.ignore_tags) = PriorList

\* C6 (amended): the same, for a resuming call whose run_tags and
\* ignore_tags filter no unit out of the prior working list.
C6_ResumeFromCursorSameList ==
    (Resumed /\ AtStop /\ KeepsPriorList) => ContinuesFromCursor

\* A pipeline stopped past its first unit, was reloaded from its file in
\* the state in which it stopped, and a resuming run has then executed two
\* units or more and returned.
C6_Witness ==
    /\ Resumed
    /\ AtStop
    /\ KeepsPriorList
    /\ prev.loaded
    /\ prev.run_step_idx >= 1
    /\ pc = "done"
    /\ ret = "success"
    /\ Len(executed) >= 2

\* The status a child ends with: the status of its result, 'unknown' for a
\* result that is no dictionary with a 'status' key.
ChildStatus(child) ==
    IF child.results.kind = "dict" THEN child.results.status ELSE "unknown"

ExpectedAggregate(children) ==
    IF \A j \in 1..Len(children) : ChildStatus(children[j]) = "success"
    THEN "success"
    ELSE IF \A j \in 1..Len(children) : ChildStatus(children[j]) = "error"
    THEN "error"
    ELSE "some failed"

\* C7 (as stated): once the children of a MultiprocessStep have been
\* joined, its status becomes 'success' if every child's status is
\* 'success', 'error' if every child's status is 'error', and 'some failed'
\* otherwise, whatever the children's outcomes were: success, error,
\* captured fault or a malformed result.
C7_GroupAggregate ==
    [][pc = "joined" =>
          steps'[Head(todo)].results
              = StatusDict(ExpectedAggregate(steps[Head(todo)].steps))]_vars

\* The pipeline [A, group[B, C], D]: A, C and D succeed; B returns status
\* 'error' and has ignore_errors set; run is called with its defaults.
C8_Scenario ==
    /\ Len(steps) = 3
    /\ \A i \in {1, 3} :
          /\ steps[i]._step_type = "PipelineStep"
          /\ steps[i].func = "success"
          /\ ~steps[i].ignore_errors
          /\ ~steps[i].ignore_exceptions
    /\ steps[2]._step_type = "MultiprocessStep"
    /\ Len(steps[2].steps) = 2
    /\ steps[2].steps[1].func = "error"
    /\ steps[2].steps[1].ignore_errors
    /\ ~steps[2].steps[1].ignore_exceptions
    /\ steps[2].steps[2].func = "success"
    /\ ~steps[2].steps[2].ignore_errors
    /\ ~steps[2].steps[2].ignore_exceptions
    /\ nruns = 1
    /\ args = NoArgs

\* C8 (as stated): the run of that pipeline returns with overall success,
\* the group's status is 'some failed', and D has been executed.
C8_ScenarioSucceeds ==
    (C8_Scenario /\ pc = "done") =>
        /\ ret = "success"
        /\ steps[2].results = StatusDict("some failed")
        /\ \E k \in 1..Len(executed) : executed[k].ref = 3

\* The work of a step returns a value that is no dictionary with a
\* 'status' key.
ReturnsMalformed(step) ==
    /\ ~FuncCall(step.func, fixed).raises
    /\ Malformed(FuncCall(step.func, fixed).value)

\* run_step on the step returns, under the flags of the run.
Returns(step) ==
    run_step(step, args.ignore_errors, args.ignore_exceptions, fixed).exc = ""

\* C9 (as stated): a malformed result never aborts the run: not the result
\* of a step run directly, and not the result of a child of a
\* MultiprocessStep whose children all return.
C9_MalformedNeverAborts ==
    ~loaded =>
        \A k \in 1..Len(executed) :
            LET u == steps[executed[k].ref]
            IN  /\ (u._step_type = "PipelineStep" /\ ReturnsMalformed(u))
                      => ~AbortedAt(k)
                /\ (/\ u._step_type = "MultiprocessStep"
                    /\ \A j \in 1..Len(u.steps) : Returns(u.steps[j])
                    /\ \E j \in 1..Len(u.steps) : ReturnsMalformed(u.steps[j]))
                      => ~AbortedAt(k)

\* C10: when pool.map has returned, the children of the MultiprocessStep
\* are the declared children in the declared order, each with the result
\* its own work produced, whatever the order in which the workers
\* finished.
C10_ChildrenInDeclaredOrder ==
    pc = "joined" =>
        LET children == steps[Head(todo)].steps
        IN  /\ Len(children) = Len(pool)
            /\ \A j \in 1..Len(pool) :
                  /\ children[j].step_id = pool[j].task.step_id
                  /\ children[j].func = pool[j].task.func
                  /\ children[j].results
                       = run_step(pool[j].task, args.ignore_errors,
                                  args.ignore_exceptions, fixed).step.results

\* pool.map has returned for two children with different work, the second
\* of which was over before the first.
C10_Witness ==
    /\ pc = "joined"
    /\ Len(pool) = 2
    /\ pool[2].order < pool[1].order
    /\ pool[1].task.func # pool[2].task.func

\* The work of a unit or child sets global_vars.
SetsGlobals(step) == step._step_type = "PipelineStep" /\ step.func = "setvar"

\* The units dispatched before the k-th that ran on the sequential path and
\* set global_vars.
SettersBefore(k) == {i \in 1..(k - 1) : SetsGlobals(steps[executed[i].ref])}

\* What the k-th unit dispatched should find in global_vars: what the last
\* such unit before it set, None if there is none.
VisibleAt(k) ==
    IF SettersBefore(k) = {} THEN None
    ELSE steps[executed[CHOOSE i \in SettersBefore(k) :
                            \A h \in SettersBefore(k) : h <= i].ref].step_id

\* C11 (as stated): what a child of a MultiprocessStep sets in global_vars
\* is never visible in the engine's global_vars, to another child or to a
\* later unit; what a step on the sequential path sets is visible to every
\* later unit; and every child of a group finds global_vars as it was when
\* the group was dispatched.
C11_WorkerIsolation ==
    (nruns = 1 /\ ~loaded) =>
        /\ \A k \in 1..Len(executed) : executed[k].saw = VisibleAt(k)
        /\ pc = "done" => global_vars = VisibleAt(Len(executed) + 1)
        /\ pc \in {"pool", "joined"} =>
              \A j \in 1..Len(pool) :
                  pool[j].state = "done" =>
                      pool[j].saw = executed[Len(executed)].saw

\* The units the current (or last) run has dispatched and gone past.
Completed == IF executed = <<>> THEN 0 ELSE run_step_idx - executed[1].pos

\* One call of save_pipeline at the start of the run and one after each of
\* the units gone past, made when the cursor had moved past the unit.
CheckpointPerUnit ==
    /\ Len(save_calls) = 1 + Completed
    /\ \A n \in 1..Completed : save_calls[n + 1].cursor = executed[n].pos + 1

\* C12 (as stated): with a 'log' path set, a run calls save_pipeline once
\* at its start and once after every unit it has dispatched, each time
\* after the cursor has moved past the unit and before the next unit
\* begins.
C12_CheckpointEveryUnit ==
    (has_log /\ nruns > 0 /\ ~loaded) => CheckpointPerUnit

\* C12 (amended): so it is when the checkpoint at the start was written;
\* when it was not, the run calls save_pipeline no more.
C12_CheckpointEveryUnitAfterFirst ==
    (has_log /\ nruns > 0 /\ ~loaded) =>
        /\ Len(save_calls) >= 1
        /\ save_calls[1].ok => CheckpointPerUnit
        /\ ~save_calls[1].ok => Len(save_calls) = 1

\* A run with a 'log' path whose first checkpoint was written has gone past
\* a MultiprocessStep and another unit and has returned.
C12_Witness ==
    /\ has_log
    /\ pc = "done"
    /\ ret = "success"
    /\ save_calls # <<>>
    /\ save_calls[1].ok
    /\ Len(executed) >= 2
    /\ \E k \in 1..Len(executed) :
          steps[executed[k].ref]._step_type = "MultiprocessStep"

\* C13 (as stated): when a call of save_pipeline fails, at the start of the
\* run or after a unit, and log_exception is true, the run is aborted
\* before the next unit is executed; when log_exception is false the run
\* goes on as it would have with the file written: nothing but a unit ends
\* it early.
C13_PersistenceFailurePolicy ==
    (has_log /\ nruns > 0 /\ ~loaded) =>
        /\ args.log_exception =>
              \A n \in 1..Len(save_calls) :
                  ~save_calls[n].ok =>
                      /\ Len(executed) <= n - 1
                      /\ pc = "done" => ret = "PipelineError"
        /\ (~args.log_exception /\ pc = "done" /\ ret # "success") =>
              /\ executed # <<>>
              /\ run_step_idx = executed[Len(executed)].pos

CursorPutPastEnd ==
    /\ executed = <<>>
    /\ run_step_idx = StartCursor(prev.run_step_idx, args.start_idx, args.resume)
    /\ \/ args.start_idx # None
       \/ args.resume

FailedGroupAt(k) ==
    LET u == steps[executed[k].ref]
    IN  /\ u._step_type = "MultiprocessStep"
        /\ u.results.kind = "dict"
        /\ u.results.status \in {"error", "some failed"}

\* C15: a run that has gone past every unit it dispatched returns
\* 'success'; and the aggregate status of a MultiprocessStep never aborts
\* the run: after a group whose aggregate is 'error' or 'some failed' the
\* cursor has moved past it, the next unit, if any, is executed, and
\* nothing but a later unit keeps the run from returning 'success'.
C15_AggregateNeverAborts ==
    ~loaded =>
        /\ (pc = "done" /\ executed # <<>>
                /\ run_step_idx > executed[Len(executed)].pos) => ret = "success"
        /\ \A k \in 1..Len(executed) :
              FailedGroupAt(k) =>
                  /\ ~AbortedAt(k)
                  /\ run_step_idx > executed[k].pos
                  /\ pc = "done" =>
                        \/ k < Len(executed)
                        \/ executed[k].pos + 1 = Len(run_steps[1]) /\ ret = "success"

\* A run has returned 'success' after a MultiprocessStep whose aggregate is
\* 'some failed' and a unit behind it.
C15_Witness ==
    /\ pc = "done"
    /\ ret = "success"
    /\ ~loaded
    /\ \E k \in 1..Len(executed) :
          /\ k < Len(executed)
          /\ FailedGroupAt(k)
          /\ steps[executed[k].ref].results.status = "some failed"

\* A call of run with resume and no explicit step list, on a pipeline that
\* has a working list.
ResumesList ==
    /\ nruns >= 2
    /\ ~loaded
    /\ args.resume
    /\ args.run_steps = None
    /\ prev.run_steps # None

\* C16 (as stated): after such a call run_steps holds the same units in the
\* same order as before the call, whatever run_tags and ignore_tags are.
C16_ResumeKeepsList ==
    ResumesList => run_steps = prev.run_steps

\* C16 (amended): after such a call run_steps holds, in the same order, the
\* units of the working list before the call that pass the filters of the
\* call; the same units when the filters keep them all.
C16_ResumeKeepsFilteredList ==
    ResumesList =>
        LET Passes(ref) ==
                /\ steps[ref].tags \cap args.ignore_tags = {}
                /\ args.run_tags # {} => steps[ref].tags \cap args.run_tags # {}
        IN  /\ run_steps = Some(SelectSeq(PriorList, Passes))
            /\ (\A p \in 1..Len(PriorList) : Passes(PriorList[p]))
                  => run_steps = prev.run_steps

\* A resuming call has kept a working list of two units or more that is
\* not the pipeline's steps in declaration order.
C16_Witness ==
    /\ ResumesList
    /\ Len(PriorList) >= 2
    /\ PriorList # Declared
    /\ run_steps = prev.run_steps

\* The steps that have work: the pipeline's PipelineSteps and the children
\* of its MultiprocessSteps.
WorkSteps ==
    {steps[i] : i \in {k \in 1..Len(steps) : steps[k]._step_type = "PipelineStep"}}
        \cup UNION {{steps[i].steps[j] : j \in 1..Len(steps[i].steps)} :
                        i \in 1..Len(steps)}

\* The mapping {status: 'unknown', result: <original value>}.
WrappedUnknown == [kind |-> "dict", status |-> "unknown", extra |-> "result"]

\* C17: the stored result of every step that has work is None or a mapping
\* whose status is success, error or unknown (in any case of the letters,
\* as line 97 reads it); and a step of the pipeline
\* whose work returns a value without a 'status' key holds, once it has
\* been executed, {status: 'unknown', result: <original value>}.
C17_ResultShape ==
    /\ \A s \in WorkSteps :
          \/ s.results = NoResults
          \/ /\ s.results.kind = "dict"
             /\ Lower(s.results.status) \in {"success", "error", "unknown"}
    /\ \A k \in 1..Len(ExecRefs) :
          steps[ExecRefs[k]].func = "nokey"
              => steps[ExecRefs[k]].results = WrappedUnknown

\* The work of the step raises if it is called now.
RaisesNow(step) == FuncCall(step.func, fixed).raises

\* C18: when the work of a step raises, the fault is captured, the step's
\* result getting status 'error', if and only if the ignore_exceptions flag
\* in force is true: the argument of run unless it is None, the step's own
\* flag otherwise.  When the flag in force is false the fault leaves run (or
\* the worker's run_step, for a child) and the step's result is what it was
\* before the execution.
C18_ExceptionPolicy ==
    [][/\ (/\ pc = "loop"
           /\ todo # <<>>
           /\ steps[Head(todo)]._step_type = "PipelineStep"
           /\ Len(executed') > Len(executed)
           /\ RaisesNow(steps[Head(todo)])) =>
             LET ref == Head(todo)
             IN  IF Effective(args.ignore_exceptions, steps[ref].ignore_exceptions)
                 THEN /\ steps'[ref].results.kind = "dict"
                      /\ steps'[ref].results.status = "error"
                      /\ ret' # "Exception"
                 ELSE /\ pc' = "done"
                      /\ ret' = "Exception"
                      /\ run_step_idx' = run_step_idx
                      /\ steps'[ref].results = steps[ref].results
       /\ \A j \in 1..Len(pool) :
             (/\ pc = "pool"
              /\ pool[j].state = "running"
              /\ Len(pool') = Len(pool)
              /\ pool'[j].state = "done"
              /\ RaisesNow(pool[j].task)) =>
                IF Effective(args.ignore_exceptions, pool[j].task.ignore_exceptions)
                THEN /\ pool'[j].step.results.kind = "dict"
                     /\ pool'[j].step.results.status = "error"
                     /\ pool'[j].exc # "Exception"
                ELSE /\ pool'[j].exc = "Exception"
                     /\ pool'[j].step.results = pool[j].task.results
                     /\ steps' = steps]_vars

\* A run whose ignore_exceptions argument is False was aborted by the fault
\* of a step whose own flag is True; the step's result is still None.
C18_Witness ==
    /\ pc = "done"
    /\ ret = "Exception"
    /\ executed # <<>>
    /\ args.ignore_exceptions = Some(FALSE)
    /\ LET u == steps[executed[Len(executed)].ref]
       IN  /\ u._step_type = "PipelineStep"
           /\ u.ignore_exceptions
           /\ u.results = NoResults

\* What the work of a step hands to run_step when it is called now: the
\* value it returns, or the mapping made of the fault that was captured.
WorkResult(step) ==
    IF RaisesNow(step)
    THEN [kind |-> "dict", status |-> "error", extra |-> "error"]
    ELSE FuncCall(step.func, fixed).value

\* The work of the step returns if it is called now under the flags of the
\* run: normally, or by a captured fault.
WorkReturns(step) ==
    RaisesNow(step) => Effective(args.ignore_exceptions, step.ignore_exceptions)

\* C19: whenever the work of a step has returned, the result field of the
\* step the pipeline holds is what the work returned, whether the run goes
\* on or is aborted: for a step of the pipeline, also when its 'error'
\* status aborts the run; for each child of a MultiprocessStep whose work
\* has returned, also when the run is aborted by a child of the group.
C19_ResultUpdated ==
    [][/\ (/\ pc = "loop"
           /\ todo # <<>>
           /\ steps[Head(todo)]._step_type = "PipelineStep"
           /\ Len(executed') > Len(executed)
           /\ WorkReturns(steps[Head(todo)])) =>
             steps'[Head(todo)].results = WorkResult(steps[Head(todo)])
       /\ (pc = "pool" /\ pc' \in {"joined", "done"}) =>
             \A j \in 1..Len(pool) :
                 (pool[j].state = "done" /\ pool[j].exc # "Exception") =>
                     steps'[Head(todo)].steps[j].results = pool[j].step.results]_vars

\* The call of run was ended by the save at its start, before the cursor
\* was positioned.
EndedAtStart == pc = "done" /\ ret # "success" /\ executed = <<>>

\* The call of run in progress (or over) has positioned the cursor by
\* start_idx, or by resume=False.
PositionsCursor ==
    /\ nruns >= 1
    /\ ~loaded
    /\ ~EndedAtStart
    /\ args.start_idx # None \/ ~args.resume

\* The position the call asks for.
AskedPosition == IF args.start_idx # None THEN args.start_idx[1] ELSE 0

\* The units executed so far are those at positions k, k+1, ... of the
\* working list, each once and in order, and the cursor follows them.
ExecutedFrom(k) ==
    /\ \A i \in 1..Len(executed) :
          /\ executed[i].pos = k + i - 1
          /\ k + i <= Len(run_steps[1])
          /\ executed[i].ref = run_steps[1][k + i]
    /\ pc = "loop" => run_step_idx = k + Len(executed)
    /\ (pc = "done" /\ ret # "success") => run_step_idx = k + Len(executed) - 1

\* C20 (as stated): a run with start_idx = k, whatever resume is, and a run
\* with no start_idx and resume=False (k = 0), executes the units at
\* positions k, k+1, ..., len(run_steps)-1 of the filtered working list,
\* each once and in order, and when it returns run_step_idx is
\* len(run_steps).
C20_StartIdx ==
    PositionsCursor =>
        /\ ExecutedFrom(AskedPosition)
        /\ (pc = "done" /\ ret = "success") =>
              /\ run_step_idx = Len(run_steps[1])
              /\ Len(executed) = Len(run_steps[1]) - AskedPosition

\* C20 (amended): the same when k is at most len(run_steps); when k is
\* greater the run executes nothing and returns with run_step_idx = k.
C20_StartIdxWithinList ==
    PositionsCursor =>
        /\ ExecutedFrom(AskedPosition)
        /\ (pc = "done" /\ ret = "success") =>
              IF AskedPosition <= Len(run_steps[1])
              THEN /\ run_step_idx = Len(run_steps[1])
                   /\ Len(executed) = Len(run_steps[1]) - AskedPosition
              ELSE /\ run_step_idx = AskedPosition
                   /\ executed = <<>>

\* A resumed run with start_idx = k, k not the cursor it found, has executed
\* the units from position k on and returned.
C20_Witness ==
    /\ PositionsCursor
    /\ args.resume
    /\ args.start_idx # None
    /\ args.start_idx[1] # prev.stopped.run_step_idx
    /\ prev.run_steps # None
    /\ pc = "done"
    /\ ret = "success"
    /\ executed # <<>>
    /\ run_step_idx = Len(run_steps[1])

\* C21: units never overlap.  While the children of a MultiprocessStep are
\* in the pool no other unit is dispatched, the cursor does not move and
\* save_pipeline is not called; the run goes on past the group only when
\* pool.map has returned, every child being over; and tasks are in progress
\* only inside pool.map, all of them children of the one unit at the cursor.
C21_UnitsNeverOverlap ==
    [][/\ pc = "pool" =>
             /\ executed' = executed
             /\ run_step_idx' = run_step_idx
             /\ save_calls' = save_calls
             /\ disk' = disk
             /\ todo' = todo \/ pc' = "done"
       /\ pc = "joined" =>
             \A j \in 1..Len(pool) : pool[j].state = "done" /\ pool[j].exc = ""
       /\ pool # <<>> =>
             /\ pc \in {"pool", "joined"}
             /\ executed # <<>>
             /\ executed[Len(executed)].ref = Head(todo)
             /\ executed[Len(executed)].pos = run_step_idx
             /\ Len(pool) = Len(steps[Head(todo)].steps)
             /\ pc = "pool" =>
                   \A j \in 1..Len(pool) : pool[j].task = steps[Head(todo)].steps[j]
       /\ (run_step_idx' # run_step_idx /\ pc # "idle" /\ pc # "done") =>
             pc \in {"loop", "joined"}]_vars

\* Two children of a group are in the pool, one over and one in progress,
\* in a run that writes checkpoints and has a unit left after the group.
C21_Witness ==
    /\ pc = "pool"
    /\ has_log
    /\ save_calls # <<>>
    /\ Len(todo) >= 2
    /\ \E i, j \in 1..Len(pool) : pool[i].state = "done" /\ pool[j].state = "running"

\* The number the pipeline's counter gave the unit at position i.
CounterId(i) == steps[i].step_id[1]

\* C22: the units of a pipeline whose step_id the pipeline's counter gave
\* have distinct step_ids that increase strictly in insertion order; a step
\* object added with a step_id of its own keeps it and uses no counter
\* value; a step object added with no step_id gets the next counter value;
\* next_id never decreases.
C22_IdentityAssignment ==
    [][/\ \A i \in counted' :
             /\ steps'[i].step_id # None
             /\ steps'[i].step_id[1] < next_id'
             /\ \A j \in counted' : i < j => steps'[i].step_id[1] < steps'[j].step_id[1]
       /\ next_id' >= next_id
       /\ Len(steps') = Len(steps) + 1 =>
             /\ SubSeq(steps', 1, Len(steps)) = steps
             /\ IF Len(steps') \in counted'
                THEN /\ steps'[Len(steps')].step_id = Some(next_id)
                     /\ next_id' = next_id + 1
                ELSE /\ steps'[Len(steps')].step_id # None
                     /\ next_id' = next_id
       /\ (mstep # None /\ mstep' = None /\ Len(steps') = Len(steps) + 1) =>
             IF mstep[1].step_id = None
             THEN Len(steps') \in counted'
             ELSE /\ Len(steps') \notin counted'
                  /\ steps'[Len(steps')].step_id = mstep[1].step_id]_vars

\* A pipeline holds a step object that kept the step_id it came with, and
\* after it two units the counter numbered.
C22_Witness ==
    /\ Len(steps) = 3
    /\ 1 \notin counted
    /\ steps[1].step_id = Some(1)
    /\ counted = {2, 3}
    /\ CounterId(2) = 0
    /\ CounterId(3) = 1

\* The MultiprocessSteps that have a step_id: those of the pipeline, and
\* the one the caller holds if it was constructed with a step_id.
IdentifiedGroups ==
    {steps[i] : i \in Groups}
        \cup (IF mstep # None /\ mstep[1].step_id # None THEN {mstep[1]} ELSE {})

\* The child came with a step_id of the caller's choice.
HasOwnId(child) == child.step_id \in (StepIds("identity") \ {None})

\* The step_id is '<group's step_id>-<n>' for some n.
Namespaced(step_id, group) ==
    /\ Len(step_id) = Len(group.step_id) + 1
    /\ SubSeq(step_id, 1, Len(group.step_id)) = group.step_id

\* C23: every child of a MultiprocessStep that came without a step_id of
\* its own has the step_id '<groupId>-<n>', groupId being the step_id the
\* group has now and n differing from child to child; also when the group
\* got its step_id from the pipeline's counter after the children were
\* added, and for the children passed to the group's constructor.
C23_ChildNamespacing ==
    \A g \in IdentifiedGroups :
        \A j \in 1..Len(g.steps) :
            ~HasOwnId(g.steps[j]) =>
                /\ Namespaced(g.steps[j].step_id, g)
                /\ \A k \in 1..Len(g.steps) :
                      (k # j /\ ~HasOwnId(g.steps[k])) =>
                          g.steps[k].step_id # g.steps[j].step_id

\* A call of run is in progress.
InRun == pc \in {"loop", "pool", "joined"}

\* The steps that have work in a unit.
Members(u) ==
    IF u._step_type = "MultiprocessStep"
    THEN {u.steps[j] : j \in 1..Len(u.steps)}
    ELSE {u}

\* The work of the step raises a fault that the flags of the run do not
\* ignore; and it ends with an 'error' status (its own, or that of a
\* captured fault) that the flags of the run do not ignore.
UnignoredFault(s) ==
    /\ s.func \in {"raise", "raise_once"}
    /\ ~Effective(args.ignore_exceptions, s.ignore_exceptions)
UnignoredError(s) ==
    /\ \/ s.func \in {"error", "Error"}
       \/ /\ s.func \in {"raise", "raise_once"}
          /\ Effective(args.ignore_exceptions, s.ignore_exceptions)
    /\ ~Effective(args.ignore_errors, s.ignore_errors)

\* How a call of run may end: by returning success with the cursor at the
\* end of the working list, or aborted by a fatal failure of the save at
\* its start, by an unignored fault or by an unignored error status of the
\* last unit it dispatched.
EndsAsStated ==
    (pc = "done" /\ ~loaded) =>
        \/ /\ ret = "success"
           /\ todo = <<>>
           /\ run_step_idx >= Len(run_steps[1])
        \/ /\ executed = <<>>
           /\ ret = "PipelineError"
           /\ args.log_exception
           /\ save_calls # <<>>
           /\ ~save_calls[1].ok
        \/ /\ executed # <<>>
           /\ ret = "Exception"
           /\ \E s \in Members(steps[executed[Len(executed)].ref]) : UnignoredFault(s)
        \/ /\ executed # <<>>
           /\ ret = "PipelineError"
           /\ \E s \in Members(steps[executed[Len(executed)].ref]) : UnignoredError(s)

\* A run dispatches no unit twice, and no more units than the working list
\* holds.
NoRetry ==
    run_steps # None =>
        /\ Len(executed) <= Len(run_steps[1])
        /\ \A i, j \in 1..Len(executed) : i < j => executed[i].pos < executed[j].pos

\* The part of C24 about termination alone: every call of run ends, having
\* dispatched no unit twice.
TerminatesWithoutRetry == [](NoRetry) /\ (InRun ~> pc = "done")

\* C24: every call of run ends; it ends by returning success with the
\* cursor at the end of the working list, or aborted by an unignored fault,
\* an unignored error status or a fatal persistence failure; and it
\* dispatches no unit twice and at most len(run_steps) units.
C24_Termination == [](NoRetry /\ EndsAsStated) /\ (InRun ~> pc = "done")

\* The position the call of run in progress (or over) starts from.
StartPosition ==
    IF args.start_idx # None THEN args.start_idx[1]
    ELSE IF ~args.resume THEN 0
    ELSE prev.run_step_idx

\* C25: every checkpoint a run writes records the position in the working
\* list of the next unit the run will execute: the checkpoint at the start
\* records the position the run starts from (0 with resume=False, k with
\* start_idx=k, whatever cursor an earlier run left), the checkpoint after a
\* unit the position after it; and when a run that writes checkpoints is
\* aborted by a unit, the file holds a checkpoint whose cursor is the
\* position of that unit, so that a resumed run of the reloaded pipeline
\* executes the units the run did not complete.
C25_CheckpointConsistency ==
    (has_log /\ nruns >= 1 /\ ~loaded) =>
        /\ \A i \in 1..Len(save_calls) :
              save_calls[i].ok =>
                  save_calls[i].cursor = IF i = 1 THEN StartPosition
                                         ELSE executed[i - 1].pos + 1
        /\ (pc = "done" /\ ret # "success" /\ executed # <<>>) =>
              /\ disk # None
              /\ disk[1].run_step_idx = executed[Len(executed)].pos

====
